---- MODULE Spec2Model ----
(***************************************************************************)
(* Checkpoint bridge of nemo/lightning/io/api.py: load_context,            *)
(* import_ckpt, load_connector_from_trainer_ckpt and export_ckpt.          *)
(*                                                                         *)
(* One call is in progress at a time (the module is synchronous).  Each    *)
(* call of a collaborator (the object-graph loader, the converter          *)
(* capability of the model, the ModelOpt export route, the converter       *)
(* itself) is one step; its outcome is either fixed by the file system     *)
(* (the loader) or chosen by the environment (everything else).  `trace'   *)
(* records the collaborator calls of the call in progress.                 *)
(*                                                                         *)
(* A path is the tuple pathlib calls `parts': <<>> is Path('.'), an        *)
(* absolute path starts with the part "/".  An optional value is a         *)
(* sequence of length at most one: <<>> is None, <<v>> is v.               *)
(***************************************************************************)
EXTENDS Integers, Sequences, FiniteSets, TLC

\* longest raw path the caller passes, in segments
MaxDepth == 2

NameSegs == {"context", "a"}
RawSegs == NameSegs \cup {"."}

\* what the caller passes as `path': segments as written, "." included,
\* the anchor "/" only in front
RawPaths ==
  UNION { { s \in [1..k -> RawSegs \cup {"/"}] :
              \A i \in 2..k : s[i] # "/" } : k \in 0..MaxDepth }

\* pathlib.Path(raw): "." segments vanish, so Path('.') has no parts
Path(raw) == SelectSeq(raw, LAMBDA s : s # ".")

\* pathlib: the parent of a path without parts, or of the root, is itself
Parent(p) ==
  IF p = <<>> \/ p = <<"/">> THEN p ELSE SubSeq(p, 1, Len(p) - 1)

\* pathlib: p / name
Join(p, name) == Append(p, name)

Sources == {"hf://org/model"}
Targets == {"hf", "hf-peft"}
Subpaths == {"None", "model", "model.config"}
Models == {"ConnectorModel", "PlainModule"}
KwargSets == {"{}", "{k=v}"}
\* paths a converter or the ModelOpt route reports as written
RetPaths == {<<"out">>, <<"cache", "model">>}
OutputPaths == {<<>>, << <<"out">> >>}
ModelOptKwargs == {<<>>, <<"{k=v}">>}
\* what a collaborator may raise
CollabErrors == {"RuntimeError", "ValueError"}
ConnectorKinds == {"load_connector_from_trainer_ckpt", "custom"}

\* variant: the capability check lets every model through
IsConnectorMixin_Any(m) == TRUE

IsConnectorMixin(m) == m = "ConnectorModel"

VARIABLES
  pc,          \* position in the call in progress
  fn,          \* the public function called
  status,      \* "idle", "running", "returned", "raised"
  error,       \* the exception the call ended with
  retval,      \* optional: what the call returned
  trace,       \* collaborator calls made by the call, in order
  written,     \* paths collaborators wrote in this call
  ctxAt,       \* directories D with a serialized context at D/io.json
  corruptAt,   \* those of them that do not deserialize
  adapterAt,   \* paths P with P/weights/adapter_metadata.json
  path, subpath, build,           \* load_context frame
  model, source,                  \* import_ckpt arguments
  ckpt_path, hookVal,             \* import_ckpt locals
  ckpt, target, output_path, overwrite, load_connector,
  modelopt_export_kwargs, kwargs, \* export_ckpt arguments (ckpt is its `path')
  _output_path, output,           \* export_ckpt locals
  exporter                        \* optional: the resolved exporter

fsVars == <<ctxAt, corruptAt, adapterAt>>
lcVars == <<path, subpath, build>>
impVars == <<model, source, ckpt_path, hookVal>>
expArgs == <<ckpt, target, output_path, overwrite, load_connector,
             modelopt_export_kwargs>>
expVars == <<_output_path, output, exporter>>
vars == <<pc, fn, status, error, retval, trace, written, fsVars, lcVars,
          impVars, expArgs, kwargs, expVars>>

Event(op, args, res, val) ==
  [op |-> op, args |-> args, res |-> res, val |-> val]

Log(e) == trace' = Append(trace, e)

Raise(err) ==
  /\ pc' = "done"
  /\ status' = "raised"
  /\ error' = err
  /\ retval' = <<>>

Return(v) ==
  /\ pc' = "done"
  /\ status' = "returned"
  /\ error' = "None"
  /\ retval' = <<v>>

Goto(l) ==
  /\ pc' = l
  /\ UNCHANGED <<status, error, retval>>

Init ==
  /\ pc = "idle"
  /\ fn = "None"
  /\ status = "idle"
  /\ error = "None"
  /\ retval = <<>>
  /\ trace = <<>>
  /\ written = {}
  /\ ctxAt = {}
  /\ corruptAt = {}
  /\ adapterAt = {}
  /\ path = <<>>
  /\ subpath = "None"
  /\ build = TRUE
  /\ model = "ConnectorModel"
  /\ source = "hf://org/model"
  /\ ckpt_path = <<>>
  /\ hookVal = <<>>
  /\ ckpt = <<>>
  /\ target = "hf"
  /\ output_path = <<>>
  /\ overwrite = FALSE
  /\ load_connector = "load_connector_from_trainer_ckpt"
  /\ modelopt_export_kwargs = <<>>
  /\ kwargs = "{}"
  /\ _output_path = <<>>
  /\ output = <<>>
  /\ exporter = <<>>

\* the fields a new call starts from
Fresh ==
  /\ status' = "running"
  /\ error' = "None"
  /\ retval' = <<>>
  /\ trace' = <<>>
  /\ written' = {}

\* the directories a load from p can consult: p and its two alternates
Near(p) == {p, Parent(p), Join(p, "context")}

----------------------------------------------------------------------------
(* the object-graph loader, nemo.lightning.io.mixin.load *)

load(p, sub, b) ==
  IF p \notin ctxAt
    THEN [res |-> "FileNotFoundError", val |-> <<>>]
    ELSE IF p \in corruptAt
      THEN [res |-> "AttributeError", val |-> <<>>]
      ELSE [res |-> "ok",
            val |-> << [store |-> p, subpath |-> sub, build |-> b] >>]

----------------------------------------------------------------------------
(* load_context *)

\* variant: the two alternates exchanged
AlternateLayout_Swapped(p) ==
  IF p[Len(p)] = "context" THEN Join(p, "context") ELSE Parent(p)

\* the `except' branch picks the other layout
AlternateLayout(p) ==
  IF p[Len(p)] = "context" THEN Parent(p) ELSE Join(p, "context")

\* path.parts[-1] of a path without parts raises IndexError
HasLastPart(p) == Len(p) > 0

\* where a finished load_context goes: back to its caller
LoadDone(r) ==
  IF fn = "load_context"
    THEN IF r.res = "ok" THEN Return(r.val[1]) ELSE Raise(r.res)
    ELSE IF r.res = "ok"
      THEN /\ Goto("conn_check")
      ELSE Raise(r.res)

CallLoadContext ==
  /\ pc = "idle"
  /\ \E raw \in RawPaths, sub \in Subpaths, b \in BOOLEAN :
       /\ path' = Path(raw)
       /\ subpath' = sub
       /\ build' = b
       /\ \E stores \in SUBSET Near(Path(raw)) :
            /\ ctxAt' = stores
            /\ \E bad \in SUBSET stores : corruptAt' = bad
  /\ fn' = "load_context"
  /\ pc' = "lc_try"
  /\ Fresh
  /\ UNCHANGED <<adapterAt, impVars, expArgs, kwargs, expVars>>

LoadTry ==
  /\ pc = "lc_try"
  /\ LET r == load(path, subpath, build) IN
       /\ Log(Event("load", <<path, subpath, build>>, r.res, r.val))
       /\ IF r.res = "FileNotFoundError"
            THEN Goto("lc_except")
            ELSE LoadDone(r)
  /\ UNCHANGED <<fn, written, fsVars, lcVars, impVars, expArgs, kwargs,
                 expVars>>

LoadFallback ==
  /\ pc = "lc_except"
  /\ IF ~HasLastPart(path)
       THEN /\ Raise("IndexError")
            /\ UNCHANGED <<trace, path>>
       ELSE LET alt == AlternateLayout(path)
                r == load(alt, subpath, build) IN
              /\ path' = alt
              /\ Log(Event("load", <<alt, subpath, build>>, r.res, r.val))
              /\ LoadDone(r)
  /\ UNCHANGED <<fn, written, fsVars, subpath, build, impVars, expArgs,
                 kwargs, expVars>>

----------------------------------------------------------------------------
(* import_ckpt *)

CallImport ==
  /\ pc = "idle"
  /\ \E m \in Models, src \in Sources, op \in OutputPaths, ow \in BOOLEAN,
        kw \in KwargSets :
       /\ model' = m
       /\ source' = src
       /\ output_path' = op
       /\ overwrite' = ow
       /\ kwargs' = kw
  /\ fn' = "import_ckpt"
  /\ pc' = "imp_check"
  /\ Fresh
  /\ UNCHANGED <<fsVars, lcVars, ckpt_path, hookVal, ckpt, target,
                 load_connector, modelopt_export_kwargs, expVars>>

ImportCheck ==
  /\ pc = "imp_check"
  /\ IF ~IsConnectorMixin(model)
       THEN Raise("ValueError")
       ELSE Goto("imp_resolve")
  /\ UNCHANGED <<fn, trace, written, fsVars, lcVars, impVars, expArgs,
                 kwargs, expVars>>

ImportResolve ==
  /\ pc = "imp_resolve"
  /\ \/ /\ Log(Event("model.importer", <<source>>, "ok", <<"importer">>))
        /\ Goto("imp_invoke")
     \/ \E err \in CollabErrors :
          /\ Log(Event("model.importer", <<source>>, err, <<>>))
          /\ Raise(err)
  /\ UNCHANGED <<fn, written, fsVars, lcVars, impVars, expArgs, kwargs,
                 expVars>>

\* variant: one more attempt after a failed importer invocation
ImportInvoke_Retry ==
  /\ pc = "imp_invoke"
  /\ \/ \E p \in RetPaths :
          /\ Log(Event("importer()", <<overwrite, output_path, kwargs>>,
                       "ok", <<p>>))
          /\ ckpt_path' = <<p>>
          /\ written' = written \cup {p}
          /\ Goto("imp_hook")
     \/ \E err \in CollabErrors :
          /\ Log(Event("importer()", <<overwrite, output_path, kwargs>>,
                       err, <<>>))
          /\ IF Len(trace) < 2 THEN Goto("imp_invoke") ELSE Raise(err)
          /\ UNCHANGED <<ckpt_path, written>>
  /\ UNCHANGED <<fn, fsVars, lcVars, model, source, hookVal, expArgs, kwargs,
                 expVars>>

ImportInvoke ==
  /\ pc = "imp_invoke"
  /\ \/ \E p \in RetPaths :
          /\ Log(Event("importer()", <<overwrite, output_path, kwargs>>,
                       "ok", <<p>>))
          /\ ckpt_path' = <<p>>
          /\ written' = written \cup {p}
          /\ Goto("imp_hook")
     \/ \E err \in CollabErrors :
          /\ Log(Event("importer()", <<overwrite, output_path, kwargs>>,
                       err, <<>>))
          /\ Raise(err)
          /\ UNCHANGED <<ckpt_path, written>>
  /\ UNCHANGED <<fn, fsVars, lcVars, model, source, hookVal, expArgs, kwargs,
                 expVars>>

ImportHook ==
  /\ pc = "imp_hook"
  /\ \/ \E h \in RetPaths :
          /\ Log(Event("on_import_ckpt", <<model>>, "ok", <<h>>))
          /\ hookVal' = <<h>>
          /\ written' = written \cup {h}
          /\ Goto("imp_return")
     \/ \E err \in CollabErrors :
          /\ Log(Event("on_import_ckpt", <<model>>, err, <<>>))
          /\ Raise(err)
          /\ UNCHANGED <<hookVal, written>>
  /\ UNCHANGED <<fn, fsVars, lcVars, model, source, ckpt_path, expArgs,
                 kwargs, expVars>>

\* variant: the hook's result returned in place of ckpt_path
ImportReturn_HookValue ==
  /\ pc = "imp_return"
  /\ Return(hookVal[1])
  /\ UNCHANGED <<fn, trace, written, fsVars, lcVars, impVars, expArgs,
                 kwargs, expVars>>

ImportReturn ==
  /\ pc = "imp_return"
  /\ Return(ckpt_path[1])
  /\ UNCHANGED <<fn, trace, written, fsVars, lcVars, impVars, expArgs,
                 kwargs, expVars>>

----------------------------------------------------------------------------
(* load_connector_from_trainer_ckpt *)

CallLoadConnector ==
  /\ pc = "idle"
  /\ \E raw \in RawPaths, t \in Targets :
       /\ ckpt' = Path(raw)
       /\ target' = t
       /\ path' = Path(raw)
       /\ \E stores \in SUBSET Near(Path(raw)) :
            /\ ctxAt' = stores
            /\ \E bad \in SUBSET stores : corruptAt' = bad
  /\ subpath' = "model"
  /\ build' = TRUE
  /\ fn' = "load_connector_from_trainer_ckpt"
  /\ pc' = "lc_try"
  /\ Fresh
  /\ UNCHANGED <<adapterAt, impVars, output_path, overwrite, load_connector,
                 modelopt_export_kwargs, kwargs, expVars>>

\* the isinstance check on the model the context holds
ConnCheck ==
  /\ pc = "conn_check"
  /\ \E m \in Models :
       /\ model' = m
       /\ IF ~IsConnectorMixin(m)
            THEN Raise("ValueError")
            ELSE Goto("conn_exporter")
  /\ UNCHANGED <<fn, trace, written, fsVars, lcVars, source, ckpt_path,
                 hookVal, expArgs, kwargs, expVars>>

ConnExporter ==
  /\ pc = "conn_exporter"
  /\ \/ /\ Log(Event("model.exporter", <<target, ckpt>>, "ok",
                     <<"exporter">>))
        /\ exporter' = <<"exporter">>
        /\ IF fn = "export_ckpt"
             THEN Goto("exp_invoke")
             ELSE Return("exporter")
     \/ \E err \in CollabErrors :
          /\ Log(Event("model.exporter", <<target, ckpt>>, err, <<>>))
          /\ Raise(err)
          /\ UNCHANGED exporter
  /\ UNCHANGED <<fn, written, fsVars, lcVars, impVars, expArgs, kwargs,
                 _output_path, output>>

----------------------------------------------------------------------------
(* export_ckpt *)

\* output_path or Path(path) / target
EffectiveOutput(op, p, t) == IF op # <<>> THEN op[1] ELSE Join(p, t)

\* modelopt_export_kwargs or {}
OrEmpty(kw) == IF kw = <<>> THEN "{}" ELSE kw[1]

\* variant: the ModelOpt route tried for every target
TriesModelOpt_Always(t) == TRUE

\* if target == "hf"
TriesModelOpt(t) == t = "hf"

\* variant: the result of the ModelOpt route ignored
RouteProduced_Never(out) == FALSE

\* if output is not None
RouteProduced(out) == out # <<>>

\* variant: the guard switched off
PeftMismatch_Off(p, t) == FALSE

\* variant: the guard applied to every target
PeftMismatch_AnyTarget(p, t) == p \in adapterAt

\* the condition of _verify_peft_export
PeftMismatch(p, t) == t = "hf" /\ p \in adapterAt

CallExport ==
  /\ pc = "idle"
  /\ \E raw \in RawPaths, t \in Targets, op \in OutputPaths, ow \in BOOLEAN,
        lc \in ConnectorKinds, mk \in ModelOptKwargs, kw \in KwargSets :
       /\ ckpt' = Path(raw)
       /\ target' = t
       /\ output_path' = op
       /\ overwrite' = ow
       /\ load_connector' = lc
       /\ modelopt_export_kwargs' = mk
       /\ kwargs' = kw
       /\ _output_path' = EffectiveOutput(op, Path(raw), t)
       /\ \E ad \in SUBSET {Path(raw)} : adapterAt' = ad
       /\ \E stores \in SUBSET Near(Path(raw)) :
            /\ lc = "custom" => stores = {}
            /\ ctxAt' = stores
            /\ \E bad \in SUBSET stores : corruptAt' = bad
  /\ fn' = "export_ckpt"
  /\ pc' = "exp_route"
  /\ Fresh
  /\ UNCHANGED <<lcVars, impVars, output, exporter>>

ExportRoute ==
  /\ pc = "exp_route"
  /\ IF TriesModelOpt(target)
       THEN LET a == <<ckpt, _output_path, OrEmpty(modelopt_export_kwargs)>>
            IN
            \/ \E r \in {<<>>} \cup {<<p>> : p \in RetPaths} :
                 /\ Log(Event("export_hf_checkpoint", a, "ok", r))
                 /\ output' = r
                 /\ written' = written \cup {r[i] : i \in 1..Len(r)}
                 /\ IF RouteProduced(r)
                      THEN Return(r[1])
                      ELSE Goto("exp_verify")
            \/ \E err \in CollabErrors :
                 /\ Log(Event("export_hf_checkpoint", a, err, <<>>))
                 /\ Raise(err)
                 /\ UNCHANGED <<output, written>>
       ELSE /\ Goto("exp_verify")
            /\ UNCHANGED <<trace, output, written>>
  /\ UNCHANGED <<fn, fsVars, lcVars, impVars, expArgs, kwargs, _output_path,
                 exporter>>

ExportVerify ==
  /\ pc = "exp_verify"
  /\ IF PeftMismatch(ckpt, target)
       THEN /\ Log(Event("_verify_peft_export", <<ckpt, target>>,
                         "ValueError", <<>>))
            /\ Raise("ValueError")
       ELSE /\ Log(Event("_verify_peft_export", <<ckpt, target>>, "ok",
                         <<>>))
            /\ Goto("exp_resolve")
  /\ UNCHANGED <<fn, written, fsVars, lcVars, impVars, expArgs, kwargs,
                 expVars>>

ExportResolve ==
  /\ pc = "exp_resolve"
  /\ IF load_connector = "custom"
       THEN \/ /\ Log(Event("load_connector", <<ckpt, target>>, "ok",
                            <<"exporter">>))
               /\ exporter' = <<"exporter">>
               /\ Goto("exp_invoke")
               /\ UNCHANGED lcVars
            \/ \E err \in CollabErrors :
                 /\ Log(Event("load_connector", <<ckpt, target>>, err, <<>>))
                 /\ Raise(err)
                 /\ UNCHANGED <<exporter, lcVars>>
       ELSE /\ Log(Event("load_connector", <<ckpt, target>>, "entered",
                         <<>>))
            /\ path' = ckpt
            /\ subpath' = "model"
            /\ build' = TRUE
            /\ Goto("lc_try")
            /\ UNCHANGED exporter
  /\ UNCHANGED <<fn, written, fsVars, impVars, expArgs, kwargs, _output_path,
                 output>>

ExportInvoke ==
  /\ pc = "exp_invoke"
  /\ \/ \E p \in RetPaths :
          /\ Log(Event("exporter()", <<overwrite, _output_path, kwargs>>,
                       "ok", <<p>>))
          /\ written' = written \cup {p}
          /\ Return(p)
     \/ \E err \in CollabErrors :
          /\ Log(Event("exporter()", <<overwrite, _output_path, kwargs>>,
                       err, <<>>))
          /\ Raise(err)
          /\ UNCHANGED written
  /\ UNCHANGED <<fn, fsVars, lcVars, impVars, expArgs, kwargs, expVars>>

Finish ==
  /\ pc = "done"
  /\ pc' = "idle"
  /\ fn' = "None"
  /\ status' = "idle"
  /\ error' = "None"
  /\ retval' = <<>>
  /\ trace' = <<>>
  /\ written' = {}
  /\ ctxAt' = {}
  /\ corruptAt' = {}
  /\ adapterAt' = {}
  /\ path' = <<>>
  /\ subpath' = "None"
  /\ build' = TRUE
  /\ model' = "ConnectorModel"
  /\ source' = "hf://org/model"
  /\ ckpt_path' = <<>>
  /\ hookVal' = <<>>
  /\ ckpt' = <<>>
  /\ target' = "hf"
  /\ output_path' = <<>>
  /\ overwrite' = FALSE
  /\ load_connector' = "load_connector_from_trainer_ckpt"
  /\ modelopt_export_kwargs' = <<>>
  /\ kwargs' = "{}"
  /\ _output_path' = <<>>
  /\ output' = <<>>
  /\ exporter' = <<>>

Next ==
  \/ CallLoadContext
  \/ LoadTry
  \/ LoadFallback
  \/ CallImport
  \/ ImportCheck
  \/ ImportResolve
  \/ ImportInvoke
  \/ ImportHook
  \/ ImportReturn
  \/ CallLoadConnector
  \/ ConnCheck
  \/ ConnExporter
  \/ CallExport
  \/ ExportRoute
  \/ ExportVerify
  \/ ExportResolve
  \/ ExportInvoke
  \/ Finish

Spec == Init /\ [][Next]_vars

----------------------------------------------------------------------------
(* properties *)

ConverterOps == {"load_connector", "model.exporter", "exporter()"}
TopLevelOps ==
  {"export_hf_checkpoint", "_verify_peft_export", "load_connector",
   "exporter()"}

Has(ops) == \E i \in DOMAIN trace : trace[i].op \in ops
Last(s) == s[Len(s)]

\* the ModelOpt route was called and returned a path
RouteReturnedPath ==
  /\ fn = "export_ckpt"
  /\ target = "hf"
  /\ Len(trace) >= 1
  /\ trace[1].op = "export_hf_checkpoint"
  /\ trace[1].res = "ok"
  /\ trace[1].val # <<>>

\* the ModelOpt route was called and returned None
RouteDeclined ==
  /\ Len(trace) >= 1
  /\ trace[1].op = "export_hf_checkpoint"
  /\ trace[1].res = "ok"
  /\ trace[1].val = <<>>

\* the call ended in the error of the PEFT guard
GuardRaised ==
  /\ fn = "export_ckpt"
  /\ pc = "done"
  /\ status = "raised"
  /\ Len(trace) >= 1
  /\ Last(trace).op = "_verify_peft_export"
  /\ Last(trace).res = "ValueError"

\* C1: an export to "hf" whose ModelOpt route returns a path returns that
\* path at once: no guard check, no load_connector, no exporter.
C1_RouteShortCircuits ==
  RouteReturnedPath =>
    /\ pc = "done"
    /\ status = "returned"
    /\ retval = trace[1].val
    /\ Len(trace) = 1
    /\ ~Has({"_verify_peft_export", "load"} \cup ConverterOps)

C1_Witness ==
  /\ RouteReturnedPath
  /\ ckpt \in adapterAt
  /\ status = "returned"

\* C2 as stated: every finished export to "hf" of a checkpoint with adapter
\* metadata ended in ValueError, and load_connector was never called.
C2_Original ==
  (fn = "export_ckpt" /\ target = "hf" /\ ckpt \in adapterAt) =>
    /\ ~Has(ConverterOps)
    /\ pc = "done" => (status = "raised" /\ error = "ValueError")

\* C2 amended: on a checkpoint with adapter metadata an export to "hf" never
\* calls load_connector, and when the ModelOpt route returned None the call
\* ends in the ValueError of the PEFT guard.
C2_GuardRejectsPeft ==
  (fn = "export_ckpt" /\ target = "hf" /\ ckpt \in adapterAt) =>
    /\ ~Has({"load"} \cup ConverterOps)
    /\ RouteDeclined =>
         /\ pc \in {"exp_verify", "done"}
         /\ pc = "done" => GuardRaised /\ error = "ValueError"

C2_Witness ==
  /\ ckpt \in adapterAt
  /\ RouteDeclined
  /\ GuardRaised

\* C3 as stated: when the PEFT guard raises, neither the ModelOpt route nor
\* any exporter has been invoked in the call.
C3_Original ==
  GuardRaised => ~Has({"export_hf_checkpoint"} \cup ConverterOps)

\* C3 amended: when the PEFT guard raises, no exporter has been resolved or
\* invoked; the ModelOpt route has been invoked exactly once, before the
\* guard, and returned None.
C3_GuardBeforeExporter ==
  GuardRaised =>
    /\ ~Has({"load"} \cup ConverterOps)
    /\ Len(trace) = 2
    /\ RouteDeclined

C3_Witness ==
  /\ GuardRaised
  /\ trace[1].op = "export_hf_checkpoint"

\* C4: import_ckpt on a model that is not a ConnectorMixin ends in ValueError
\* with no importer resolved or invoked, no hook called, nothing written.
C4_NonCapableImport ==
  (fn = "import_ckpt" /\ model = "PlainModule") =>
    /\ trace = <<>>
    /\ written = {}
    /\ pc \in {"imp_check", "done"}
    /\ pc = "done" => (status = "raised" /\ error = "ValueError")

C4_Witness ==
  /\ fn = "import_ckpt"
  /\ model = "PlainModule"
  /\ pc = "done"
  /\ status = "raised"

\* attempts to create a converter, and attempts to invoke one
Resolutions ==
  {i \in DOMAIN trace :
     \/ trace[i].op \in {"model.importer", "model.exporter"}
     \/ trace[i].op = "load_connector" /\ trace[i].res # "entered"}
Invocations ==
  {i \in DOMAIN trace : trace[i].op \in {"importer()", "exporter()"}}

\* C5: one import or export call creates at most one converter and invokes
\* it at most once; a failed resolution or invocation is not retried.
C5_OneConverter ==
  fn \in {"import_ckpt", "export_ckpt"} =>
    /\ Cardinality(Resolutions) <= 1
    /\ Cardinality(Invocations) <= 1
    /\ \A i \in Resolutions \cup Invocations :
         trace[i].res # "ok" => (i = Len(trace) /\ pc = "done")

C5_Witness ==
  /\ fn = "import_ckpt"
  /\ status = "raised"
  /\ Cardinality(Resolutions) = 1
  /\ Cardinality(Invocations) = 1
  /\ trace[2].res # "ok"

\* C6 as stated: with the only context stored at X/context, load_context(X)
\* and load_context(X/context) both return what loading X/context gives.
C6_LayoutSymmetry ==
  (/\ fn = "load_context"
   /\ pc = "done"
   /\ corruptAt = {}
   /\ \E s \in ctxAt :
        /\ ctxAt = {s}
        /\ Len(s) >= 1
        /\ Last(s) = "context"
        /\ trace[1].args[1] \in {s, SubSeq(s, 1, Len(s) - 1)}) =>
    /\ status = "returned"
    /\ \A s \in ctxAt :
         retval = << [store |-> s, subpath |-> subpath, build |-> build] >>

\* C7 as stated: with no context at the path or at either alternate,
\* load_context ends in FileNotFoundError, whatever the path.
C7_NotFound ==
  (/\ fn = "load_context"
   /\ pc = "done"
   /\ ctxAt \cap Near(trace[1].args[1]) = {}) =>
    /\ status = "raised"
    /\ error = "FileNotFoundError"

Loads == SelectSeq(trace, LAMBDA e : e.op = "load")

\* C8: load_context calls the loader at most twice; the second call follows
\* only a FileNotFoundError of the first, goes to the parent when the last
\* segment is "context" and to path/"context" otherwise, and passes the same
\* subpath and build.
C8_OneFallback ==
  LET L == Loads IN
    /\ Len(L) <= 2
    /\ Len(L) = 2 =>
         LET p == L[1].args[1] IN
           /\ L[1].res = "FileNotFoundError"
           /\ Len(p) >= 1
           /\ L[2].args[1] =
                (IF p[Len(p)] = "context"
                   THEN (IF p = <<"/">> THEN p ELSE SubSeq(p, 1, Len(p) - 1))
                   ELSE p \o <<"context">>)
           /\ L[2].args[2] = L[1].args[2]
           /\ L[2].args[3] = L[1].args[3]
    /\ (Len(L) = 1 /\ L[1].res # "FileNotFoundError") => pc # "lc_except"

C8_Witness ==
  /\ fn = "load_context"
  /\ Len(Loads) = 2
  /\ Last(Loads[1].args[1]) = "context"
  /\ status = "returned"

ImportSteps == <<"model.importer", "importer()", "on_import_ckpt">>

\* C9: import_ckpt on a capable model resolves the importer for source,
\* invokes it with overwrite, output_path and the options, calls the hook
\* with the model, in this order and once each, each step only after the one
\* before succeeded, and returns the path the importer invocation returned.
C9_ImportOrder ==
  (fn = "import_ckpt" /\ model = "ConnectorModel") =>
    LET n == Len(trace) IN
      /\ n <= 3
      /\ \A i \in 1..n : trace[i].op = ImportSteps[i]
      /\ \A i \in 1..(n - 1) : trace[i].res = "ok"
      /\ n >= 1 => trace[1].args = <<source>>
      /\ n >= 2 => trace[2].args = <<overwrite, output_path, kwargs>>
      /\ n >= 3 => trace[3].args = <<model>>
      /\ status = "returned" =>
           /\ n = 3
           /\ trace[3].res = "ok"
           /\ retval = trace[2].val
      /\ status = "raised" => (n >= 1 /\ error = trace[n].res)

C9_Witness ==
  /\ fn = "import_ckpt"
  /\ status = "returned"
  /\ hookVal # ckpt_path
  /\ Len(trace) = 3

ExportSteps(t) ==
  IF t = "hf"
    THEN <<"export_hf_checkpoint", "_verify_peft_export", "load_connector",
           "exporter()">>
    ELSE <<"_verify_peft_export", "load_connector", "exporter()">>

TopLevel == SelectSeq(trace, LAMBDA e : e.op \in TopLevelOps)

\* C10: the steps of export_ckpt are a prefix of: ModelOpt route (exactly
\* when target is "hf"), guard check, load_connector(path, target), exporter
\* invocation; a path from the route ends the call; a target other than "hf"
\* never fails the guard; a failing step is the last step and its error is
\* the error of the call.
C10_ExportStateMachine ==
  fn = "export_ckpt" =>
    LET T == TopLevel
        E == ExportSteps(target)
        n == Len(T)
    IN
      /\ n <= Len(E)
      /\ \A i \in 1..n : T[i].op = E[i]
      /\ \A i \in 1..n :
           T[i].op = "load_connector" => T[i].args = <<ckpt, target>>
      /\ \A i \in 1..n :
           T[i].res \notin {"ok", "entered"} =>
             /\ i = n
             /\ Last(trace) = T[i]
             /\ pc = "done"
             /\ status = "raised"
             /\ error = T[i].res
      /\ \A i \in 1..n :
           (T[i].op = "_verify_peft_export" /\ T[i].res # "ok") =>
             target = "hf"
      /\ status = "returned" =>
           \/ n = 1 /\ RouteReturnedPath /\ retval = T[1].val
           \/ n = Len(E) /\ T[n].res = "ok" /\ T[n].val # <<>>
                /\ retval = T[n].val /\ ~RouteReturnedPath
      /\ status = "raised" => (n < Len(E) \/ T[n].res # "ok")

C10_Witness ==
  /\ fn = "export_ckpt"
  /\ status = "returned"
  /\ target = "hf"
  /\ Len(TopLevel) = 4
====
